---- MODULE Spec2Model ----
(***************************************************************************)
(* Model of the masker package (github.com/surendratiwari3/masker).       *)
(*                                                                         *)
(* The package keeps a process-wide registry of named string transforms   *)
(* and walks a value by reflection, replacing string fields by the result *)
(* of the transform chosen by a runtime override or by the field's `mask` *)
(* struct tag.                                                             *)
(*                                                                         *)
(* Go strings are sequences of one-character TLA+ strings (bytes).         *)
(* Memory is a function from addresses (tuples of strings) to cell        *)
(* contents, so that pointers, slice backing arrays and maps are shared   *)
(* between a struct and its shallow copy exactly as in Go.                 *)
(***************************************************************************)
EXTENDS Integers, Sequences, FiniteSets, TLC

VARIABLES
    maskRegistry,   \* var maskRegistry: strategy name -> function
    fieldTag,       \* the `mask` struct tags of the types being masked
    mem,            \* the caller's value graph (address -> cell content)
    pre,            \* history: mem before the last call
    last,           \* history: the last call and its arguments
    ret,            \* what the last call returned
    panicked,       \* the last call ended in a run-time panic
    reRegistered,   \* history: name -> function of the RegisterMaskFunc calls made
    calls           \* history: number of masking calls made

vars == <<maskRegistry, fieldTag, mem, pre, last, ret, panicked, reRegistered, calls>>

---------------------------------------------------------------------------
(* Bounds of the model *)

\* longest sample string placed in a field
MaxLen == 6
\* number of elements of the slice field
MaxElems == 1
\* number of RegisterMaskFunc calls explored
MaxRegs == 2
\* longest string fed to a strategy called on its own
MaxStrLen == 5
\* number of times the caller makes its masking call
MaxCalls == 2

---------------------------------------------------------------------------
(* Strings *)

Star == "*"

\* strings.Repeat(c, n)
Repeat(c, n) == [i \in 1..n |-> c]

\* s[lo:hi] of Go (0-based, hi exclusive); the bounds are checked by the caller
Slice(s, lo, hi) == SubSeq(s, lo + 1, hi)

RECURSIVE SplitFrom(_, _, _, _)
SplitFrom(s, sep, i, cur) ==
    IF i > Len(s) THEN <<cur>>
    ELSE IF s[i] = sep THEN <<cur>> \o SplitFrom(s, sep, i + 1, <<>>)
    ELSE SplitFrom(s, sep, i + 1, Append(cur, s[i]))

\* strings.Split(s, sep) for a one-byte separator
Split(s, sep) == SplitFrom(s, sep, 1, <<>>)

Ok(s) == [ok |-> TRUE, val |-> s]
\* a run-time panic (slice bounds out of range)
Panic == [ok |-> FALSE, val |-> <<>>]

---------------------------------------------------------------------------
(* The built-in strategies installed by init() *)

\* partial leaving a string of at most 4 bytes as it is
partialKeepShort(s) ==
    IF Len(s) > 4
    THEN Ok(Slice(s, 0, 2) \o Repeat(Star, Len(s) - 4) \o Slice(s, Len(s) - 2, Len(s)))
    ELSE Ok(s)

\* partial keeping the last 3 bytes
partialOffByOne(s) ==
    IF Len(s) > 4
    THEN Ok(Slice(s, 0, 2) \o Repeat(Star, Len(s) - 4) \o Slice(s, Len(s) - 3, Len(s)))
    ELSE Ok(Repeat(Star, Len(s)))

partial(s) ==
    IF Len(s) > 4
    THEN Ok(Slice(s, 0, 2) \o Repeat(Star, Len(s) - 4) \o Slice(s, Len(s) - 2, Len(s)))
    ELSE Ok(Repeat(Star, Len(s)))

full(s) == Ok(Repeat(Star, Len(s)))

\* parts[0][:1] panics when parts[0] is empty
email(s) ==
    LET parts == Split(s, "@") IN
    IF Len(parts) = 2
    THEN IF Len(parts[1]) < 1
         THEN Panic
         ELSE Ok(Slice(parts[1], 0, 1) \o Repeat(Star, Len(parts[1]) - 1)
                 \o <<"@">> \o parts[2])
    ELSE Ok(Repeat(Star, Len(s)))

phone(s) ==
    IF Len(s) > 4
    THEN Ok(Repeat(Star, Len(s) - 4) \o Slice(s, Len(s) - 4, Len(s)))
    ELSE Ok(Repeat(Star, Len(s)))

creditcard(s) ==
    IF Len(s) > 4
    THEN Ok(Repeat(Star, Len(s) - 4) \o Slice(s, Len(s) - 4, Len(s)))
    ELSE Ok(Repeat(Star, Len(s)))

dob(s) ==
    IF Len(s) = 10
    THEN Ok(<<"*", "*", "*", "*", "-", "*", "*", "-">> \o Slice(s, Len(s) - 2, Len(s)))
    ELSE Ok(Repeat(Star, Len(s)))

password(s) == Ok(Repeat(Star, Len(s)))

token(s) == Ok(Repeat(Star, Len(s)))

none(s) == Ok(s)

\* Transforms a caller may pass to RegisterMaskFunc (type MaskFunc): one that
\* replaces the value by "#", one that keeps the first byte.
userHash(s) == Ok(<<"#">>)

userFirst(s) == Ok(IF Len(s) > 0 THEN Slice(s, 0, 1) ELSE s)

UserFuncs == {"userHash", "userFirst"}

\* fn(s) for a function value fn held by the registry
MaskFunc(fn, s) ==
    CASE fn = "partial" -> partial(s)
      [] fn = "full" -> full(s)
      [] fn = "email" -> email(s)
      [] fn = "phone" -> phone(s)
      [] fn = "creditcard" -> creditcard(s)
      [] fn = "dob" -> dob(s)
      [] fn = "password" -> password(s)
      [] fn = "token" -> token(s)
      [] fn = "none" -> none(s)
      [] fn = "userHash" -> userHash(s)
      [] fn = "userFirst" -> userFirst(s)

---------------------------------------------------------------------------
(* The registry *)

BasicNames == {"partial", "full", "email", "phone", "creditcard", "dob",
               "password", "token"}

GroupNames == {"PII", "PHI", "PCI", "CREDENTIALS", "FINANCIAL", "GDPR"}

\* the strategy a group name is installed from
GroupOf(n) ==
    CASE n = "PII" -> "partial"
      [] n = "PHI" -> "dob"
      [] n = "PCI" -> "creditcard"
      [] n = "CREDENTIALS" -> "full"
      [] n = "FINANCIAL" -> "partial"
      [] n = "GDPR" -> "full"

\* maskRegistry[name] = fn, with a group name rebound whenever the strategy it
\* was installed from is registered again (binding by reference)
RegisterMaskFuncLive(reg, name, fn) ==
    [n \in DOMAIN reg \cup {name} |->
        IF n = name \/ (n \in GroupNames /\ GroupOf(n) = name) THEN fn ELSE reg[n]]

\* maskRegistry[name] = fn
RegisterMaskFunc(reg, name, fn) ==
    [n \in DOMAIN reg \cup {name} |-> IF n = name THEN fn ELSE reg[n]]

\* the registry after the basic strategies are installed: each name holds its
\* own function literal
basicRegistry == [n \in BasicNames |-> n]

\* the registry after init(): a group name is assigned the function value its
\* strategy holds at that moment (maskRegistry["PII"] = maskRegistry["partial"])
init ==
    [n \in BasicNames \cup GroupNames \cup {"none"} |->
        IF n \in GroupNames THEN basicRegistry[GroupOf(n)] ELSE n]

---------------------------------------------------------------------------
(* The types being masked, as reflection sees them.                       *)
(*                                                                         *)
(*   type Inner struct {                                                   *)
(*       Name string `mask:"<fieldTag["Inner.Name"]>"`                     *)
(*   }                                                                     *)
(*   type Customer struct {                                                *)
(*       Name   string `mask:"<fieldTag["Customer.Name"]>"`                *)
(*       secret string `mask:"strategy:full"`                              *)
(*       Age    int    `mask:"strategy:full"`                              *)
(*       Inner  Inner                                                      *)
(*       Ptr    *Inner                                                     *)
(*       List   []Inner                                                    *)
(*       Map    map[string]Inner                                           *)
(*   }                                                                     *)
(***************************************************************************)

\* one segment of a tag, "key:val"
Seg(k, v) == [key |-> k, val |-> v]

Strategy(name) == <<Seg("strategy", name)>>

\* reflect.Kind of a type
Kind(t) ==
    CASE t = "string" -> "String"
      [] t = "int" -> "Int"
      [] t \in {"Customer", "Inner"} -> "Struct"
      [] t \in {"*Customer", "*Inner"} -> "Ptr"
      [] t = "[]Inner" -> "Slice"
      [] t = "map[string]Inner" -> "Map"

\* the element type of a pointer, slice or map type
ElemType(t) ==
    CASE t = "*Customer" -> "Customer"
      [] t \in {"*Inner", "[]Inner", "map[string]Inner"} -> "Inner"

\* rt.Field(i) for i = 1..NumField: name, type, exported, tag
StructField(n, t, e, g) == [name |-> n, type |-> t, exported |-> e, tag |-> g]

Fields(t) ==
    IF t = "Customer"
    THEN << StructField("Name", "string", TRUE, fieldTag["Customer.Name"]),
            StructField("secret", "string", FALSE, Strategy("full")),
            StructField("Age", "int", TRUE, Strategy("full")),
            StructField("Inner", "Inner", TRUE, <<>>),
            StructField("Ptr", "*Inner", TRUE, <<>>),
            StructField("List", "[]Inner", TRUE, <<>>),
            StructField("Map", "map[string]Inner", TRUE, <<>>) >>
    ELSE << StructField("Name", "string", TRUE, fieldTag["Inner.Name"]) >>

---------------------------------------------------------------------------
(* Memory and reflect.Value *)

\* the nil pointer / nil map
NilAddr == <<>>

\* the name of the i-th element cell of a backing array (0-based)
IdxName(i) == <<"0", "1", "2", "3">>[i + 1]

MapKeys == {"k1", "k2"}

\* a reflect.Value: its type, where it lives, whether it is addressable, and,
\* for a pointer, the address it holds
Value(t, a, c, m) ==
    [valid |-> TRUE, type |-> t, addr |-> a, canSet |-> c,
     ptr |-> IF Kind(t) = "Ptr" THEN m[a] ELSE NilAddr]

\* reflect.ValueOf(nil)
InvalidValue == [valid |-> FALSE, type |-> "int", addr |-> NilAddr, canSet |-> FALSE,
                 ptr |-> NilAddr]

\* reflect.ValueOf(p) for a pointer p passed by the caller
PtrValue(t, target) ==
    [valid |-> TRUE, type |-> t, addr |-> NilAddr, canSet |-> FALSE, ptr |-> target]

\* rv.Elem() of a non-nil pointer: the addressable value it points to
Elem(m, rv) == Value(ElemType(rv.type), rv.ptr, TRUE, m)

\* rv.Field(i): settable when the struct is addressable and the field exported
Field(m, rv, i) ==
    LET f == Fields(rv.type)[i] IN
    Value(f.type, rv.addr \o <<f.name>>, rv.canSet /\ f.exported, m)

\* rv.Index(i) of a slice: always addressable
Index(m, rv, i) ==
    Value(ElemType(rv.type), m[rv.addr].base \o <<IdxName(i)>>, TRUE, m)

\* rv.MapIndex(key): a copy of the entry, not addressable
MapIndex(m, rv, key) ==
    Value(ElemType(rv.type), m[rv.addr] \o <<key>>, FALSE, m)

---------------------------------------------------------------------------
(* maskValue: the recursive walk.  The walk threads st = [mem, panicked,   *)
(* keyOrder]: a panic unwinds the whole call, so nothing is written after  *)
(* it; keyOrder is the order in which this run iterates map keys.          *)

\* type MaskOverrides map[string]string; a nil map has isNil set
NilOverrides == [isNil |-> TRUE, m |-> <<>>]

Overrides(f) == [isNil |-> FALSE, m |-> f]

\* value.SetString(fn(value.String()))
SetString(st, value, fn) ==
    LET r == MaskFunc(fn, st.mem[value.addr]) IN
    IF r.ok THEN [st EXCEPT !.mem[value.addr] = r.val]
    ELSE [st EXCEPT !.panicked = TRUE]

\* for _, part := range strings.Split(tag, ";"): every "strategy:" segment
\* naming a registered strategy is applied, in order
RECURSIVE applyTag(_, _, _, _)
applyTag(st, value, parts, k) ==
    IF k > Len(parts) \/ st.panicked THEN st
    ELSE IF parts[k].key = "strategy" /\ parts[k].val \in DOMAIN maskRegistry
    THEN applyTag(SetString(st, value, maskRegistry[parts[k].val]), value, parts, k + 1)
    ELSE applyTag(st, value, parts, k + 1)

RECURSIVE maskValue(_, _, _)
RECURSIVE maskFields(_, _, _, _)
RECURSIVE maskElems(_, _, _, _)
RECURSIVE maskEntries(_, _, _, _)

\* one iteration of the struct loop, with an override naming an unregistered
\* strategy ending the decision for the field
maskFieldStop(st, rv, i, overrides) ==
    LET field == Fields(rv.type)[i]
        value == Field(st.mem, rv, i)
        fieldName == field.name
        overridden == ~overrides.isNil /\ fieldName \in DOMAIN overrides.m
    IN  IF ~value.canSet THEN st
        ELSE IF overridden /\ overrides.m[fieldName] = "none" THEN st
        ELSE IF overridden /\ Kind(value.type) = "String"
        THEN IF overrides.m[fieldName] \in DOMAIN maskRegistry
             THEN SetString(st, value, maskRegistry[overrides.m[fieldName]])
             ELSE st
        ELSE IF field.tag # <<>> /\ Kind(value.type) = "String"
        THEN applyTag(st, value, field.tag, 1)
        ELSE maskValue(st, value, overrides)

\* one iteration of the struct loop, with the field's tag applied before the
\* override is looked at
maskFieldTagFirst(st, rv, i, overrides) ==
    LET field == Fields(rv.type)[i]
        value == Field(st.mem, rv, i)
        fieldName == field.name
        overridden == ~overrides.isNil /\ fieldName \in DOMAIN overrides.m
    IN  IF ~value.canSet THEN st
        ELSE IF field.tag # <<>> /\ Kind(value.type) = "String"
        THEN applyTag(st, value, field.tag, 1)
        ELSE IF overridden /\ overrides.m[fieldName] = "none" THEN st
        ELSE IF overridden /\ overrides.m[fieldName] \in DOMAIN maskRegistry
                /\ Kind(value.type) = "String"
        THEN SetString(st, value, maskRegistry[overrides.m[fieldName]])
        ELSE maskValue(st, value, overrides)

\* one iteration of the struct loop, recursing into a nested value without the
\* overrides
maskFieldTopOnly(st, rv, i, overrides) ==
    LET field == Fields(rv.type)[i]
        value == Field(st.mem, rv, i)
        fieldName == field.name
        overridden == ~overrides.isNil /\ fieldName \in DOMAIN overrides.m
    IN  IF ~value.canSet THEN st
        ELSE IF overridden /\ overrides.m[fieldName] = "none" THEN st
        ELSE IF overridden /\ overrides.m[fieldName] \in DOMAIN maskRegistry
                /\ Kind(value.type) = "String"
        THEN SetString(st, value, maskRegistry[overrides.m[fieldName]])
        ELSE IF field.tag # <<>> /\ Kind(value.type) = "String"
        THEN applyTag(st, value, field.tag, 1)
        ELSE maskValue(st, value, NilOverrides)

\* one iteration of the struct loop of maskValue
maskField(st, rv, i, overrides) ==
    LET field == Fields(rv.type)[i]
        value == Field(st.mem, rv, i)
        fieldName == field.name
        overridden == ~overrides.isNil /\ fieldName \in DOMAIN overrides.m
    IN  IF ~value.canSet THEN st
        ELSE IF overridden /\ overrides.m[fieldName] = "none" THEN st
        ELSE IF overridden /\ overrides.m[fieldName] \in DOMAIN maskRegistry
                /\ Kind(value.type) = "String"
        THEN SetString(st, value, maskRegistry[overrides.m[fieldName]])
        ELSE IF field.tag # <<>> /\ Kind(value.type) = "String"
        THEN applyTag(st, value, field.tag, 1)
        ELSE maskValue(st, value, overrides)

\* for i := 0; i < rv.NumField(); i++
maskFields(st, rv, i, overrides) ==
    IF i > Len(Fields(rv.type)) \/ st.panicked THEN st
    ELSE maskFields(maskField(st, rv, i, overrides), rv, i + 1, overrides)

\* for i := 0; i < rv.Len(); i++
maskElems(st, rv, i, overrides) ==
    IF i >= st.mem[rv.addr].len \/ st.panicked THEN st
    ELSE maskElems(maskValue(st, Index(st.mem, rv, i), overrides), rv, i + 1, overrides)

\* for _, key := range rv.MapKeys(), in this run's order
maskEntries(st, rv, k, overrides) ==
    IF k > Len(st.keyOrder) \/ st.panicked THEN st
    ELSE IF st.mem[rv.addr] = NilAddr \/ st.keyOrder[k] \notin st.mem[st.mem[rv.addr]]
    THEN maskEntries(st, rv, k + 1, overrides)
    ELSE maskEntries(maskValue(st, MapIndex(st.mem, rv, st.keyOrder[k]), overrides),
                     rv, k + 1, overrides)

maskValue(st, rv0, overrides) ==
    IF st.panicked \/ ~rv0.valid THEN st
    ELSE LET rv == IF Kind(rv0.type) = "Ptr" /\ rv0.ptr # NilAddr
                   THEN Elem(st.mem, rv0) ELSE rv0
         IN  CASE Kind(rv.type) = "Struct" -> maskFields(st, rv, 1, overrides)
               [] Kind(rv.type) = "Slice" -> maskElems(st, rv, 0, overrides)
               [] Kind(rv.type) = "Map" -> maskEntries(st, rv, 1, overrides)
               [] OTHER -> st

---------------------------------------------------------------------------
(* The caller's data *)

Letters == <<"a", "b", "c", "d", "e", "f", "g", "h">>

\* "abc..." of length n
Plain(n) == [i \in 1..n |-> Letters[((i - 1) % Len(Letters)) + 1]]

\* "ab@cd..." of length n >= 3
Mail(n) == [i \in 1..n |-> IF i = 3 THEN "@" ELSE Plain(n)[i]]

\* a mail address with an empty local part
NoLocal == <<"@", "a">>

\* a date, "1990-12-31"
Date == <<"1", "9", "9", "0", "-", "1", "2", "-", "3", "1">>

Samples ==
    {Plain(n) : n \in 0..MaxLen} \cup {Mail(n) : n \in 3..MaxLen} \cup {NoLocal, Date}

NestedSamples == {Mail(MaxLen), NoLocal}

TopTags ==
    { <<>>, Strategy("partial"), Strategy("email"), Strategy("bogus"), Strategy("PHI"),
      <<Seg("group", "PII"), Seg("strategy", "partial")>>,
      <<Seg("strategy", "email"), Seg("strategy", "partial")>> }

InnerTags == {Strategy("partial"), Strategy("email")}

\* the cells of a Customer at address b
CustomerCells(b, name, inner, ptr, list, map) ==
    (b \o <<"Name">> :> name) @@ (b \o <<"secret">> :> name) @@ (b \o <<"Age">> :> 30)
    @@ (b \o <<"Inner", "Name">> :> inner) @@ (b \o <<"Ptr">> :> ptr)
    @@ (b \o <<"List">> :> list) @@ (b \o <<"Map">> :> map)

\* the heap objects a Customer refers to: an Inner, a backing array, a map
HeapCells(t) ==
    (<<"h", "Name">> :> t) @@ (<<"map">> :> MapKeys)
    @@ [a \in {<<"arr", IdxName(i), "Name">> : i \in 0..(MaxElems - 1)}
            \cup {<<"map", k, "Name">> : k \in MapKeys} |-> t]

\* the memory holding the caller's Customer `orig`
NewCustomer(s, t, nested) ==
    IF nested
    THEN CustomerCells(<<"orig">>, s, t, <<"h">>, [base |-> <<"arr">>, len |-> MaxElems],
                       <<"map">>) @@ HeapCells(t)
    ELSE CustomerCells(<<"orig">>, s, t, NilAddr, [base |-> NilAddr, len |-> 0], NilAddr)

\* what the caller passes as v
Args == {"ptr", "nilptr", "value", "nil"}

\* reflect.ValueOf(v)
ValueOf(m, v) ==
    CASE v = "ptr" -> PtrValue("*Customer", <<"orig">>)
      [] v = "nilptr" -> PtrValue("*Customer", NilAddr)
      [] v = "value" -> Value("Customer", <<"orig">>, FALSE, m)
      [] v = "nil" -> InvalidValue

OverrideSets ==
    {NilOverrides, Overrides(<<>>)}
    \cup {Overrides("Name" :> n) : n \in {"none", "full", "email", "bogus"}}

KeyOrders == {<<"k1", "k2">>, <<"k2", "k1">>}

Call(op, v, overrides, disable, name, fn, input) ==
    [op |-> op, v |-> v, overrides |-> overrides, disable |-> disable,
     name |-> name, fn |-> fn, input |-> input]

NoCall == Call("none", "nil", NilOverrides, FALSE, "", "", <<>>)

\* the caller makes a masking call, and may make the same call again
MayCall(c) == calls < MaxCalls /\ (calls > 0 => c = last)

\* a call of maskValue on memory m
Run(m, rv, overrides, order) ==
    maskValue([mem |-> m, panicked |-> FALSE, keyOrder |-> order], rv, overrides)

---------------------------------------------------------------------------
(* The public functions *)

\* func Mask(v interface{})
Mask(v) ==
    /\ MayCall(Call("Mask", v, NilOverrides, FALSE, "", "", <<>>))
    /\ \E order \in KeyOrders :
        LET st == Run(mem, ValueOf(mem, v), NilOverrides, order) IN
        /\ mem' = st.mem
        /\ panicked' = st.panicked
        /\ pre' = mem
        /\ last' = Call("Mask", v, NilOverrides, FALSE, "", "", <<>>)
        /\ ret' = "none"
        /\ calls' = calls + 1
        /\ UNCHANGED <<maskRegistry, fieldTag, reRegistered>>

\* func MaskWithOverrides(v interface{}, overrides MaskOverrides)
MaskWithOverrides(v, overrides) ==
    /\ MayCall(Call("MaskWithOverrides", v, overrides, FALSE, "", "", <<>>))
    /\ \E order \in KeyOrders :
        LET st == Run(mem, ValueOf(mem, v), overrides, order) IN
        /\ mem' = st.mem
        /\ panicked' = st.panicked
        /\ pre' = mem
        /\ last' = Call("MaskWithOverrides", v, overrides, FALSE, "", "", <<>>)
        /\ ret' = "none"
        /\ calls' = calls + 1
        /\ UNCHANGED <<maskRegistry, fieldTag, reRegistered>>

\* copyVal := reflect.New(rv.Elem().Type()); copyVal.Elem().Set(rv.Elem()):
\* every cell of the struct is copied, the objects it refers to are not
ShallowCopy(m) ==
    LET cells == {a \in DOMAIN m : a[1] = "orig"} IN
    [a \in (DOMAIN m \ {c \in DOMAIN m : c[1] = "copy"})
           \cup {<<"copy">> \o Tail(c) : c \in cells} |->
        IF a[1] = "copy" THEN m[<<"orig">> \o Tail(a)] ELSE m[a]]

\* func MaskCopy(v interface{}, overrides MaskOverrides) interface{}
MaskCopy(v, overrides) ==
    /\ MayCall(Call("MaskCopy", v, overrides, FALSE, "", "", <<>>))
    /\ \E order \in KeyOrders :
        LET rv == ValueOf(mem, v)
            st == Run(ShallowCopy(mem), PtrValue("*Customer", <<"copy">>), overrides, order)
        IN  /\ IF ~rv.valid \/ Kind(rv.type) # "Ptr" \/ rv.ptr = NilAddr
               THEN /\ mem' = mem
                    /\ panicked' = FALSE
                    /\ ret' = v
               ELSE /\ mem' = st.mem
                    /\ panicked' = st.panicked
                    /\ ret' = "copy"
            /\ pre' = mem
            /\ last' = Call("MaskCopy", v, overrides, FALSE, "", "", <<>>)
            /\ calls' = calls + 1
            /\ UNCHANGED <<maskRegistry, fieldTag, reRegistered>>

\* MaskWithContext not looking at the disable flag
MaskWithContextIgnoreFlag(v, overrides, disableMasking) ==
    /\ MayCall(Call("MaskWithContext", v, overrides, disableMasking, "", "", <<>>))
    /\ \E order \in KeyOrders :
        LET st == Run(mem, ValueOf(mem, v), overrides, order)
        IN  /\ mem' = st.mem
            /\ panicked' = st.panicked
            /\ pre' = mem
            /\ last' = Call("MaskWithContext", v, overrides, disableMasking, "", "", <<>>)
            /\ ret' = "none"
            /\ calls' = calls + 1
            /\ UNCHANGED <<maskRegistry, fieldTag, reRegistered>>

\* masker.MaskWithContext(v, ctx): the context carries the overrides and the
\* disable flag; with the flag set the call does nothing
MaskWithContext(v, overrides, disableMasking) ==
    /\ MayCall(Call("MaskWithContext", v, overrides, disableMasking, "", "", <<>>))
    /\ \E order \in KeyOrders :
        LET st == IF disableMasking
                  THEN [mem |-> mem, panicked |-> FALSE, keyOrder |-> order]
                  ELSE Run(mem, ValueOf(mem, v), overrides, order)
        IN  /\ mem' = st.mem
            /\ panicked' = st.panicked
            /\ pre' = mem
            /\ last' = Call("MaskWithContext", v, overrides, disableMasking, "", "", <<>>)
            /\ ret' = "none"
            /\ calls' = calls + 1
            /\ UNCHANGED <<maskRegistry, fieldTag, reRegistered>>

---------------------------------------------------------------------------
(* Masking a Customer, with the registry as init() leaves it *)

Init ==
    /\ maskRegistry = init
    /\ fieldTag \in {("Customer.Name" :> a) @@ ("Inner.Name" :> b) :
                         a \in TopTags, b \in InnerTags}
    /\ \E s \in Samples, t \in NestedSamples, nested \in BOOLEAN :
           mem = NewCustomer(s, t, nested)
    /\ pre = mem
    /\ last = NoCall
    /\ ret = "none"
    /\ panicked = FALSE
    /\ reRegistered = <<>>
    /\ calls = 0

Next ==
    \/ \E v \in Args : Mask(v)
    \/ \E v \in Args, o \in OverrideSets : MaskWithOverrides(v, o)
    \/ \E v \in Args, o \in OverrideSets : MaskCopy(v, o)
    \/ \E v \in Args, o \in OverrideSets, d \in BOOLEAN : MaskWithContext(v, o, d)

Spec == Init /\ [][Next]_vars

---------------------------------------------------------------------------
(* Registration, then masking: RegisterMaskFunc is called before any       *)
(* masking call ("call during init only")                                  *)

RegisterNames == {"partial", "dob", "creditcard", "full", "PII", "custom"}

RegistryTags == {Strategy(n) : n \in GroupNames \cup {"partial", "full", "custom"}}

RegistrySamples == {Plain(MaxLen), Plain(2), Date}

\* RegisterMaskFunc(name, fn)
Register(name, fn) ==
    /\ calls = 0
    /\ Cardinality(DOMAIN reRegistered \cup {name}) <= MaxRegs
    /\ maskRegistry' = RegisterMaskFunc(maskRegistry, name, fn)
    /\ reRegistered' = (name :> fn) @@ reRegistered
    /\ last' = Call("RegisterMaskFunc", "nil", NilOverrides, FALSE, name, fn, <<>>)
    /\ UNCHANGED <<fieldTag, mem, pre, ret, panicked, calls>>

InitRegistry ==
    /\ maskRegistry = init
    /\ fieldTag \in {("Customer.Name" :> a) @@ ("Inner.Name" :> Strategy("partial")) :
                         a \in RegistryTags}
    /\ \E s \in RegistrySamples : mem = NewCustomer(s, s, FALSE)
    /\ pre = mem
    /\ last = NoCall
    /\ ret = "none"
    /\ panicked = FALSE
    /\ reRegistered = <<>>
    /\ calls = 0

NextRegistry ==
    \/ \E name \in RegisterNames, fn \in UserFuncs : Register(name, fn)
    \/ Mask("ptr")

SpecRegistry == InitRegistry /\ [][NextRegistry]_vars

---------------------------------------------------------------------------
(* A strategy called on its own, and again on its own result *)

Alphabet == {"a", "b", "@"}

Strings(n) == UNION {[1..k -> Alphabet] : k \in 0..n}

StrategyInputs == Strings(MaxStrLen) \cup {Date, Plain(MaxLen)}

\* maskRegistry[name](s)
CallStrategy(name, s) ==
    LET r == MaskFunc(maskRegistry[name], s) IN
    /\ calls < MaxCalls
    /\ calls > 0 => (name = last.name /\ s = ret /\ ~panicked)
    /\ ret' = r.val
    /\ panicked' = ~r.ok
    /\ last' = Call("strategy", "nil", NilOverrides, FALSE, name, maskRegistry[name], s)
    /\ calls' = calls + 1
    /\ UNCHANGED <<maskRegistry, fieldTag, mem, pre, reRegistered>>

InitStrategy ==
    /\ maskRegistry = init
    /\ fieldTag = ("Customer.Name" :> <<>>) @@ ("Inner.Name" :> <<>>)
    /\ mem = NewCustomer(<<>>, <<>>, FALSE)
    /\ pre = mem
    /\ last = NoCall
    /\ ret = <<>>
    /\ panicked = FALSE
    /\ reRegistered = <<>>
    /\ calls = 0

NextStrategy ==
    \E name \in DOMAIN maskRegistry, s \in StrategyInputs \cup {ret} : CallStrategy(name, s)

SpecStrategy == InitStrategy /\ [][NextStrategy]_vars

---------------------------------------------------------------------------
(* Vocabulary of the properties *)

\* the last masking call was made on a pointer to the Customer and returned
Returned == calls > 0 /\ last.v = "ptr" /\ ~panicked

\* the struct the last call walked
Root == IF last.op = "MaskCopy" THEN <<"copy">> ELSE <<"orig">>

\* the value a cell had when the last call was made
Orig(a) == IF a[1] = "copy" THEN pre[<<"orig">> \o Tail(a)] ELSE pre[a]

TopName(root) == root \o <<"Name">>

\* the Name fields of the records reached through the record, pointer and
\* slice fields
NestedNames(root) ==
    {root \o <<"Inner", "Name">>}
    \cup (IF mem[root \o <<"Ptr">>] # NilAddr
          THEN {mem[root \o <<"Ptr">>] \o <<"Name">>} ELSE {})
    \cup {mem[root \o <<"List">>].base \o <<IdxName(i), "Name">> :
              i \in 0..(mem[root \o <<"List">>].len - 1)}

\* the Name fields of the records held by the map field
MapNames(root) ==
    IF mem[root \o <<"Map">>] = NilAddr THEN {}
    ELSE {mem[root \o <<"Map">>] \o <<k, "Name">> : k \in mem[mem[root \o <<"Map">>]]}

\* the strategy names a tag declares
StrategiesOf(tag) == SelectSeq(tag, LAMBDA p : p.key = "strategy")

\* the tag of the field at address a
TagAt(a) == IF a \in {<<"orig", "Name">>, <<"copy", "Name">>}
            THEN fieldTag["Customer.Name"]
            ELSE fieldTag["Inner.Name"]

\* the override entry for the field Name, if any
HasEntry == ~last.overrides.isNil /\ "Name" \in DOMAIN last.overrides.m

Entry == last.overrides.m["Name"]

\* the named strategy applied to s
Applied(name, s) == MaskFunc(maskRegistry[name], s).val

\* the reference rule of `partial`
PartialRule(s) ==
    [i \in 1..Len(s) |->
        IF Len(s) > 4 /\ (i <= 2 \/ i > Len(s) - 2) THEN s[i] ELSE "*"]

\* the reference rule of `email`
EmailRule(s) ==
    LET ats == {i \in 1..Len(s) : s[i] = "@"} IN
    IF Cardinality(ats) = 1
    THEN LET at == CHOOSE i \in ats : TRUE IN
         [i \in 1..Len(s) |-> IF i = 1 \/ i >= at THEN s[i] ELSE "*"]
    ELSE [i \in 1..Len(s) |-> "*"]

---------------------------------------------------------------------------
(* Properties *)

\* C1: after MaskWithOverrides, and in the copy MaskCopy returns, every
\* settable string field whose name has an override entry of `none` or of a
\* registered strategy holds that strategy applied once to its original value
\* (`none`: the original value), whatever its tag declares.
C1_OverrideBeatsTag ==
    (Returned /\ last.op \in {"MaskWithOverrides", "MaskCopy"} /\ HasEntry
        /\ (Entry = "none" \/ Entry \in DOMAIN maskRegistry))
    => \A a \in {TopName(Root)} \cup NestedNames(Root) :
           mem[a] = IF Entry = "none" THEN Orig(a) ELSE Applied(Entry, Orig(a))

C1_Witness ==
    /\ Returned /\ calls = 1 /\ last.op = "MaskWithOverrides"
    /\ last.overrides = Overrides("Name" :> "full")
    /\ fieldTag["Customer.Name"] = Strategy("email")
    /\ pre[<<"orig", "Name">>] = Mail(MaxLen)
    /\ mem[<<"orig", "Name">>] = Repeat(Star, MaxLen)

\* C2: MaskCopy on a non-nil pointer leaves every string reachable from the
\* original as it was before the call.
C2_OriginalUntouched ==
    (calls > 0 /\ last.op = "MaskCopy" /\ last.v = "ptr")
    => \A a \in DOMAIN pre : a[1] # "copy" => mem[a] = pre[a]

\* C3 (as stated): a string field whose strategy name, from its tag or from
\* its override entry, is not registered is left unmodified by Mask and
\* MaskWithOverrides; an override naming an unregistered strategy ends the
\* decision, so the field keeps its value even when its tag names a
\* registered strategy.
C3_UnregisteredLeavesUnmodified ==
    (calls > 0 /\ last.v = "ptr" /\ last.op \in {"Mask", "MaskWithOverrides"})
    => \A a \in {TopName(Root)} \cup NestedNames(Root) :
           (IF HasEntry THEN Entry \notin DOMAIN maskRegistry \cup {"none"}
            ELSE \E p \in 1..Len(StrategiesOf(TagAt(a))) :
                     StrategiesOf(TagAt(a))[p].val \notin DOMAIN maskRegistry)
           => mem[a] = pre[a]

\* C3 (amended): a string field whose tag names an unregistered strategy, and
\* which no override entry decides, is left unmodified; an override entry
\* naming an unregistered strategy is ignored, the call having the effect of
\* the same call without that entry, so the field is decided by its tag.
C3_UnregisteredOverrideIgnored ==
    (calls > 0 /\ last.v = "ptr" /\ last.op \in {"Mask", "MaskWithOverrides"})
    => /\ \A a \in {TopName(Root)} \cup NestedNames(Root) :
              ( /\ HasEntry => Entry \notin DOMAIN maskRegistry \cup {"none"}
                /\ Len(StrategiesOf(TagAt(a))) = 1
                /\ StrategiesOf(TagAt(a))[1].val \notin DOMAIN maskRegistry )
              => mem[a] = pre[a]
       /\ (HasEntry /\ Entry \notin DOMAIN maskRegistry \cup {"none"})
              => \E order \in KeyOrders :
                     LET st == Run(pre, ValueOf(pre, "ptr"), Overrides(<<>>), order)
                     IN  mem = st.mem /\ panicked = st.panicked

C3_Witness ==
    /\ Returned /\ calls = 1 /\ last.op = "MaskWithOverrides"
    /\ last.overrides = Overrides("Name" :> "bogus")
    /\ fieldTag["Customer.Name"] = Strategy("partial")
    /\ pre[<<"orig", "Name">>] = Plain(MaxLen)
    /\ mem[<<"orig", "Name">>] = partial(Plain(MaxLen)).val
    /\ mem[<<"orig", "Name">>] # pre[<<"orig", "Name">>]

\* C4: after Mask or MaskWithOverrides, every tagged string leaf of the
\* nested record, of each slice element and of each map value is masked by
\* its declared strategy (the override set having no entry for the leaf).
C4_ContainersMasked ==
    (Returned /\ last.op \in {"Mask", "MaskWithOverrides"} /\ ~HasEntry)
    => \A a \in NestedNames(Root) \cup MapNames(Root) :
           mem[a] = Applied(StrategiesOf(TagAt(a))[1].val, pre[a])

\* C5: with the disable flag set, the masking call changes no field, tagged
\* or overridden.
C5_DisabledIsNoOp ==
    (calls > 0 /\ last.op = "MaskWithContext" /\ last.disable)
    => mem = pre /\ ~panicked

C5_Witness ==
    /\ calls = 1 /\ last.op = "MaskWithContext" /\ last.disable /\ last.v = "ptr"
    /\ last.overrides = Overrides("Name" :> "full")
    /\ fieldTag["Customer.Name"] = Strategy("partial")
    /\ mem[<<"orig", "Name">>] = Plain(MaxLen)
    /\ mem[<<"orig", "Ptr">>] # NilAddr

\* C6 (as stated): an override entry applies to the top-level field of that
\* name only; the field of the same name in a nested record is decided by
\* its own tag.
C6_OverrideTopLevelOnly ==
    (Returned /\ last.op \in {"MaskWithOverrides", "MaskCopy"} /\ HasEntry)
    => \A a \in NestedNames(Root) :
           mem[a] = Applied(StrategiesOf(TagAt(a))[1].val, Orig(a))

\* C6 (amended): an override entry applies to every settable field of that
\* name the walk reaches, at any depth: the field of the same name in a
\* record reached through a record, pointer or slice field is decided as the
\* top-level one is (`none`: unchanged; a registered strategy: that strategy;
\* otherwise its own tag).  A walk that a panic cuts short leaves the field
\* either so decided or untouched.
C6_OverrideAtEveryDepth ==
    (calls > 0 /\ last.v = "ptr" /\ last.op \in {"MaskWithOverrides", "MaskCopy"}
        /\ HasEntry)
    => \A a \in NestedNames(Root) :
           LET decided ==
                   IF Entry = "none" THEN Ok(Orig(a))
                   ELSE IF Entry \in DOMAIN maskRegistry
                   THEN MaskFunc(maskRegistry[Entry], Orig(a))
                   ELSE MaskFunc(maskRegistry[StrategiesOf(TagAt(a))[1].val], Orig(a))
           IN  IF panicked
               THEN mem[a] = Orig(a) \/ (decided.ok /\ mem[a] = decided.val)
               ELSE decided.ok /\ mem[a] = decided.val

C6_Witness ==
    /\ Returned /\ calls = 1 /\ last.op = "MaskWithOverrides"
    /\ last.overrides = Overrides("Name" :> "full")
    /\ fieldTag["Inner.Name"] = Strategy("partial")
    /\ pre[<<"orig", "Ptr">>] # NilAddr
    /\ pre[<<"h", "Name">>] = Mail(MaxLen)
    /\ mem[<<"h", "Name">>] = Repeat(Star, MaxLen)
    /\ mem[<<"h", "Name">>] # partial(Mail(MaxLen)).val

\* C7: after RegisterMaskFunc calls that re-register strategies but not the
\* group name itself, a group name still applies the transform its strategy
\* had when the group was installed, and a re-registered name applies the
\* transform registered last; a field tagged with either is masked so.
C7_GroupsBoundByValue ==
    /\ \A g \in GroupNames \ DOMAIN reRegistered :
           \A s \in RegistrySamples : MaskFunc(maskRegistry[g], s) = MaskFunc(GroupOf(g), s)
    /\ \A n \in DOMAIN reRegistered : maskRegistry[n] = reRegistered[n]
    /\ (Returned /\ last.op = "Mask")
       => LET n == fieldTag["Customer.Name"][1].val
              s == pre[<<"orig", "Name">>]
          IN  /\ n \in GroupNames \ DOMAIN reRegistered
                     => mem[<<"orig", "Name">>] = MaskFunc(GroupOf(n), s).val
              /\ n \in DOMAIN reRegistered
                     => mem[<<"orig", "Name">>] = MaskFunc(reRegistered[n], s).val

C7_Witness ==
    /\ Returned /\ last.op = "Mask"
    /\ "partial" \in DOMAIN reRegistered /\ reRegistered["partial"] = "userHash"
    /\ "PII" \notin DOMAIN reRegistered
    /\ fieldTag["Customer.Name"] = Strategy("PII")
    /\ pre[<<"orig", "Name">>] = Plain(MaxLen)
    /\ mem[<<"orig", "Name">>] = partial(Plain(MaxLen)).val
    /\ MaskFunc(maskRegistry["partial"], Plain(MaxLen)).val = <<"#">>

\* C8: the `email` strategy returns a string for every input and never
\* fails: with exactly one `@`, the first character of the local part, then
\* asterisks for the rest of it, then `@` and the domain; otherwise
\* asterisks throughout.
C8_EmailTotal ==
    (calls > 0 /\ last.op = "strategy" /\ last.name = "email")
    => ~panicked /\ ret = EmailRule(last.input)

\* C9: after Mask a string field tagged strategy:partial equals the
\* reference rule for its length n (n > 4: first 2, n-4 asterisks, last 2;
\* n <= 4: n asterisks), and has length n.
C9_PartialTag ==
    (Returned /\ last.op = "Mask")
    => \A a \in {TopName(Root)} \cup NestedNames(Root) :
           (Len(StrategiesOf(TagAt(a))) = 1 /\ StrategiesOf(TagAt(a))[1].val = "partial")
           => mem[a] = PartialRule(pre[a]) /\ Len(mem[a]) = Len(pre[a])

C9_Witness ==
    /\ Returned /\ calls = 1 /\ last.op = "Mask"
    /\ fieldTag["Customer.Name"] = <<Seg("group", "PII"), Seg("strategy", "partial")>>
    /\ pre[<<"orig", "Name">>] = Plain(4)
    /\ mem[<<"orig", "Name">>] = Repeat(Star, 4)

\* the tags and the override set of the last call name built-in strategies
\* and groups only
BuiltInOnly ==
    /\ \A k \in DOMAIN fieldTag :
           \A p \in 1..Len(StrategiesOf(fieldTag[k])) :
               StrategiesOf(fieldTag[k])[p].val \in DOMAIN init
    /\ HasEntry => Entry \in DOMAIN init

\* C10 (as stated): with tags and overrides naming built-in strategies only,
\* making the same Mask / MaskWithOverrides call again leaves every field as
\* the first call left it.
C10_Idempotent ==
    (calls >= 2 /\ last.op \in {"Mask", "MaskWithOverrides"} /\ BuiltInOnly)
    => mem = pre

\* C10 (amended): the same, for tags that carry at most one strategy
\* segment.
C10_IdempotentSingleStrategy ==
    (calls >= 2 /\ last.op \in {"Mask", "MaskWithOverrides"} /\ BuiltInOnly
        /\ \A k \in DOMAIN fieldTag : Len(StrategiesOf(fieldTag[k])) <= 1)
    => mem = pre

C10_Witness ==
    /\ Returned /\ calls = 2 /\ last.op = "Mask"
    /\ fieldTag["Customer.Name"] = Strategy("email")
    /\ fieldTag["Inner.Name"] = Strategy("partial")
    /\ pre[<<"orig", "Ptr">>] # NilAddr
    /\ mem[<<"orig", "Name">>] = email(Mail(MaxLen)).val
    /\ mem[<<"orig", "Name">>] # Mail(MaxLen)
    /\ mem[<<"h", "Name">>] = partial(Mail(MaxLen)).val
    /\ mem = pre


====
